---- MODULE Spec2Model ----
(***************************************************************************)
(* Model of the write_mqtt plugin (src/src/write_mqtt.c): one endpoint     *)
(* instance (wm_callback_t) with its send buffer, its mosquitto handle,    *)
(* the connected flag, the publish complaint and the send_lock mutex,      *)
(* driven by host threads that call wm_write, wm_flush and, once,          *)
(* wm_callback_free.                                                       *)
(*                                                                         *)
(* The library calls (mosquitto_*, format_json_*, c_complain/c_release,    *)
(* cdtime) are not part of the repository.  The mosquitto calls are        *)
(* inputs: every call draws its result.  The JSON serializer and the       *)
(* complaint limiter are modelled from their contract.                     *)
(***************************************************************************)
EXTENDS Integers, Sequences, FiniteSets, TLC

(* ------------------------------ bounds -------------------------------- *)

\* send_buffer_size of the instance, at model scale.
BufSize == 10

\* cdtime() runs from 0 to MaxTime.
MaxTime == 2

\* At most MaxFails mosquitto_publish failures between two successes.
MaxFails == 2

(* ------------------------- program constants -------------------------- *)

\* wm_flush_nolock sends only when send_buffer_fill exceeds this.
EmptyFill == 2

\* Bytes the serializer keeps free for the closing bracket and the NUL.
ReservedBytes == 2

RetOk == 0

RetFail == -1

\* -ENOMEM, the serializer's "would not fit".
RetNoMem == -12

\* -EINVAL, any other serializer error.
RetInval == -22

Threads == {"t1", "t2"}

\* Timeouts a caller passes to wm_flush; 0 flushes unconditionally.
Timeouts == 0 .. MaxTime

\* The configuration names a CAPath, so wm_callback_init sets up TLS.
CaPath == TRUE

\* A sample is the value list handed to wm_write: id names it, size is the
\* length of its JSON encoding (leading comma included); size 0 stands for
\* a value list the serializer rejects with an error other than -ENOMEM.
Samples ==
  { [id |-> "a", size |-> 3],
    [id |-> "b", size |-> 4],
    [id |-> "c", size |-> BufSize + 1],
    [id |-> "d", size |-> 0] }

\* Outcomes of the library calls of wm_callback_init, in call order.
InitOutcomes ==
  {"ok", "new_fail", "tls_set_fail", "tls_insecure_fail", "connect_fail",
   "loop_start_fail"}

\* The results of the library calls one operation makes.
Env ==
  [init : InitOutcomes, reconnect : BOOLEAN, publish : BOOLEAN,
   finalize : BOOLEAN]

VARIABLES cb, now, lock, pc, freed, accepted, run, lastRun, obs

vars == <<cb, now, lock, pc, freed, accepted, run, lastRun, obs>>

(* ---------------------------- serializer ------------------------------ *)

\* The JSON encoding of one value list: a leading comma, then the body.
Serialize(s) == <<",">> \o [i \in 1 .. (s.size - 1) |-> s.id]

\* format_json_initialize: all of the buffer is free again.
FormatJsonInitialize(c) ==
  [c EXCEPT !.send_buffer = <<>>,
            !.send_buffer_free = c.send_buffer_fill + c.send_buffer_free,
            !.send_buffer_fill = 0]

\* format_json_value_list: append the encoding or leave the buffer as it is.
FormatJsonValueList(c, s) ==
  IF s.size = 0
    THEN [status |-> RetInval, cb |-> c]
    ELSE IF s.size + ReservedBytes > c.send_buffer_free
      THEN [status |-> RetNoMem, cb |-> c]
      ELSE [status |-> RetOk,
            cb |-> [c EXCEPT !.send_buffer = c.send_buffer \o Serialize(s),
                             !.send_buffer_fill = c.send_buffer_fill + s.size,
                             !.send_buffer_free = c.send_buffer_free - s.size]]

\* format_json_finalize: the leading comma becomes "[", and "]" is appended.
FormatJsonFinalize(c, ok) ==
  IF ~ok \/ c.send_buffer_free < ReservedBytes \/ c.send_buffer_fill = 0
    THEN [status |-> RetFail, cb |-> c]
    ELSE [status |-> RetOk,
          cb |-> [c EXCEPT !.send_buffer =
                               <<"[">> \o Tail(c.send_buffer) \o <<"]">>,
                           !.send_buffer_fill = c.send_buffer_fill + 1,
                           !.send_buffer_free = c.send_buffer_free - 1]]

\* What a subscriber reads from a payload: the first byte of every element.
RECURSIVE PayloadElements(_, _)
PayloadElements(p, i) ==
  IF i >= Len(p)
    THEN <<>>
    ELSE IF p[i] \in {"[", ","} /\ p[i + 1] # "]"
      THEN <<p[i + 1]>> \o PayloadElements(p, i + 1)
      ELSE PayloadElements(p, i + 1)

\* A payload is one JSON array: it opens and closes once.
WellFormedPayload(p) ==
  /\ Len(p) >= 2
  /\ p[1] = "["
  /\ p[Len(p)] = "]"
  /\ \A i \in 2 .. (Len(p) - 1) : p[i] \notin {"[", "]"}

(* ------------------------- complaint limiter -------------------------- *)

\* c_complain: log once per onset.  x is the running operation.
CComplain(x) ==
  IF x.cb.complaint
    THEN x
    ELSE [x EXCEPT !.cb.complaint = TRUE,
                   !.calls = Append(x.calls, "log_onset")]

\* c_release: log the recovery if there was a complaint.
CRelease(x) ==
  IF x.cb.complaint
    THEN [x EXCEPT !.cb.complaint = FALSE,
                   !.calls = Append(x.calls, "log_recovered")]
    ELSE x

(* -------------------------- wm_callback_t ----------------------------- *)

\* The instance wm_config_node registers: no handle, not connected, the
\* buffer allocated and reset, no complaint.
InitCb ==
  [mosq |-> FALSE, connected |-> FALSE, send_buffer |-> <<>>,
   send_buffer_free |-> BufSize, send_buffer_fill |-> 0,
   send_buffer_init_time |-> 0, complaint |-> FALSE]

NoSample == [id |-> "none", size |-> 0]

\* A running operation: the instance, the status of the last call, the
\* library calls and log lines so far, the payloads handed to
\* mosquitto_publish, the runs of wm_flush_nolock, the buffer resets, and
\* whether send_lock was unlocked on the way out.
Begin(c) ==
  [cb |-> c, status |-> RetOk, calls |-> <<>>, payloads |-> <<>>,
   flushes |-> <<>>, resets |-> 0, unlocked |-> FALSE]

Call(x, name) == [x EXCEPT !.calls = Append(@, name)]

\* wm_reset_buffer that forgets to zero the fill.
wm_reset_buffer_keeps_fill(x, t) ==
  [x EXCEPT !.cb.send_buffer_free = BufSize,
            !.cb.send_buffer_init_time = t,
            !.resets = @ + 1]

wm_reset_buffer(x, t) ==
  [x EXCEPT !.cb = FormatJsonInitialize(
                     [x.cb EXCEPT !.send_buffer = <<>>,
                                  !.send_buffer_free = BufSize,
                                  !.send_buffer_fill = 0,
                                  !.send_buffer_init_time = t]),
            !.resets = @ + 1]

\* wm_mqtt_reconnect that reconnects without looking at the connected flag.
wm_mqtt_reconnect_always(x, e) ==
  IF ~e.reconnect
    THEN [Call(Call(x, "reconnect_fail"), "log_error")
            EXCEPT !.status = RetFail]
    ELSE CRelease([Call(x, "reconnect_ok") EXCEPT !.cb.connected = TRUE,
                                                  !.status = RetOk])

wm_mqtt_reconnect(x, e) ==
  IF x.cb.connected
    THEN [x EXCEPT !.status = RetOk]
    ELSE IF ~e.reconnect
      THEN [Call(Call(x, "reconnect_fail"), "log_error")
              EXCEPT !.status = RetFail]
      ELSE CRelease([Call(x, "reconnect_ok") EXCEPT !.cb.connected = TRUE,
                                                    !.status = RetOk])

\* wm_publish_nolock that leaves the connection marked up after a failure.
wm_publish_nolock_stays_up(x, e) ==
  LET r == wm_mqtt_reconnect(x, e)
      sent == [r EXCEPT !.payloads = Append(@, r.cb.send_buffer)]
  IN  IF r.status # RetOk
        THEN Call(r, "log_error")
        ELSE IF ~e.publish
          THEN [CComplain(Call(sent, "publish_fail"))
                  EXCEPT !.status = RetFail]
          ELSE [Call(sent, "publish_ok") EXCEPT !.status = RetOk]

\* wm_publish_nolock that gives the handle up after a failed publish.
wm_publish_nolock_destroys_handle(x, e) ==
  LET r == wm_mqtt_reconnect(x, e)
      sent == [r EXCEPT !.payloads = Append(@, r.cb.send_buffer)]
  IN  IF r.status # RetOk
        THEN Call(r, "log_error")
        ELSE IF ~e.publish
          THEN [Call(Call(CComplain(Call(sent, "publish_fail")),
                          "disconnect"), "destroy")
                  EXCEPT !.cb.connected = FALSE, !.cb.mosq = FALSE,
                         !.status = RetFail]
          ELSE [Call(sent, "publish_ok") EXCEPT !.status = RetOk]

wm_publish_nolock(x, e) ==
  LET r == wm_mqtt_reconnect(x, e)
      sent == [r EXCEPT !.payloads = Append(@, r.cb.send_buffer)]
  IN  IF r.status # RetOk
        THEN Call(r, "log_error")
        ELSE IF ~e.publish
          THEN [Call(CComplain(Call(sent, "publish_fail")), "disconnect")
                  EXCEPT !.cb.connected = FALSE, !.status = RetFail]
          ELSE [Call(sent, "publish_ok") EXCEPT !.status = RetOk]

\* A failed step that leaves the half-built handle in the instance.
InitFailed_keeps_handle(x, failed) ==
  [Call(Call(Call(x, failed), "log_error"), "destroy")
     EXCEPT !.cb.mosq = TRUE, !.status = RetFail]

\* The handle is destroyed and left null after a failed step.
InitFailed(x, failed) ==
  [Call(Call(Call(x, failed), "log_error"), "destroy")
     EXCEPT !.cb.mosq = FALSE, !.status = RetFail]

\* A successful mosquitto_connect that is not recorded in the flag.
InitConnected_no_flag(x) == Call(x, "connect_ok")

\* mosquitto_connect succeeded: wm_callback_init sets the connected flag.
InitConnected(x) == [Call(x, "connect_ok") EXCEPT !.cb.connected = TRUE]

\* wm_callback_init once the handle is known to be null.
InitSteps(x, e, t) ==
  IF e.init = "new_fail"
    THEN [Call(Call(x, "new_fail"), "log_error") EXCEPT !.status = RetFail]
    ELSE LET h == Call(x, "new_ok")
    IN  IF CaPath /\ e.init = "tls_set_fail"
          THEN InitFailed(h, "tls_set_fail")
          ELSE IF CaPath /\ e.init = "tls_insecure_fail"
            THEN InitFailed(h, "tls_insecure_fail")
            ELSE IF e.init = "connect_fail"
              THEN InitFailed(h, "connect_fail")
              ELSE LET c == InitConnected(h)
              IN  IF e.init = "loop_start_fail"
                    THEN [Call(Call(Call(Call(c, "loop_start_fail"),
                                         "log_error"), "disconnect"),
                               "destroy")
                            EXCEPT !.cb.connected = TRUE,
                                   !.cb.mosq = FALSE,
                                   !.status = RetFail]
                    ELSE [wm_reset_buffer(
                            [Call(c, "loop_start_ok")
                               EXCEPT !.cb.mosq = TRUE], t)
                            EXCEPT !.status = RetOk]

\* wm_callback_init without its early return for an existing handle.
wm_callback_init_always(x, e, t) == InitSteps(x, e, t)

wm_callback_init(x, e, t) ==
  IF x.cb.mosq
    THEN [x EXCEPT !.status = RetOk]
    ELSE InitSteps(x, e, t)

\* The send of wm_flush_nolock with the buffer reset before it is published.
FlushSend_reset_first(x, e, t) ==
  LET f == FormatJsonFinalize(x.cb, e.finalize)
  IN  IF f.status # RetOk
        THEN [wm_reset_buffer(
                Call(Call([x EXCEPT !.cb = f.cb], "finalize_fail"),
                     "log_error"), t)
                EXCEPT !.status = f.status]
        ELSE wm_publish_nolock(
               wm_reset_buffer(
                 Call([x EXCEPT !.cb = f.cb], "finalize_ok"), t), e)

\* The send of wm_flush_nolock that reports success whatever the publish did.
FlushSend_drops_status(x, e, t) ==
  LET f == FormatJsonFinalize(x.cb, e.finalize)
  IN  IF f.status # RetOk
        THEN [wm_reset_buffer(
                Call(Call([x EXCEPT !.cb = f.cb], "finalize_fail"),
                     "log_error"), t)
                EXCEPT !.status = f.status]
        ELSE LET p == wm_publish_nolock(
                        Call([x EXCEPT !.cb = f.cb], "finalize_ok"), e)
        IN  [wm_reset_buffer(p, t) EXCEPT !.status = RetOk]

\* The send of wm_flush_nolock that keeps the buffer after a failed publish.
FlushSend_keeps_unsent(x, e, t) ==
  LET f == FormatJsonFinalize(x.cb, e.finalize)
  IN  IF f.status # RetOk
        THEN [wm_reset_buffer(
                Call(Call([x EXCEPT !.cb = f.cb], "finalize_fail"),
                     "log_error"), t)
                EXCEPT !.status = f.status]
        ELSE LET p == wm_publish_nolock(
                        Call([x EXCEPT !.cb = f.cb], "finalize_ok"), e)
        IN  IF p.status # RetOk
              THEN [p EXCEPT !.cb.send_buffer = x.cb.send_buffer,
                             !.cb.send_buffer_fill = x.cb.send_buffer_fill,
                             !.cb.send_buffer_free = x.cb.send_buffer_free]
              ELSE [wm_reset_buffer(p, t) EXCEPT !.status = p.status]

\* wm_flush_nolock from format_json_finalize on: finalize, publish, reset.
FlushSend(x, e, t) ==
  LET f == FormatJsonFinalize(x.cb, e.finalize)
  IN  IF f.status # RetOk
        THEN [wm_reset_buffer(
                Call(Call([x EXCEPT !.cb = f.cb], "finalize_fail"),
                     "log_error"), t)
                EXCEPT !.status = f.status]
        ELSE LET p == wm_publish_nolock(
                        Call([x EXCEPT !.cb = f.cb], "finalize_ok"), e)
        IN  [wm_reset_buffer(p, t) EXCEPT !.status = p.status]

\* wm_flush_nolock without its test for an empty buffer.
FlushIfFilled_always(x, e, t) == FlushSend(x, e, t)

\* wm_flush_nolock from the test for an empty buffer on.
FlushIfFilled(x, e, t) ==
  IF x.cb.send_buffer_fill <= EmptyFill
    THEN [x EXCEPT !.cb.send_buffer_init_time = t, !.status = RetOk]
    ELSE FlushSend(x, e, t)

\* wm_flush_nolock without its age check.
FlushBody_no_age_check(timeout, x, e, t) == FlushIfFilled(x, e, t)

\* wm_flush_nolock after its DEBUG line.
FlushBody(timeout, x, e, t) ==
  IF timeout > 0 /\ x.cb.send_buffer_init_time + timeout > t
    THEN [x EXCEPT !.status = RetOk]
    ELSE FlushIfFilled(x, e, t)

\* wm_flush_nolock, and the record of what this run of it did.
wm_flush_nolock(timeout, x, e, t) ==
  LET r == FlushBody(timeout, x, e, t)
  IN  [r EXCEPT !.flushes =
                  Append(@, [timeout |-> timeout, entry |-> x.cb,
                             exit |-> r.cb, status |-> r.status,
                             calls |-> SubSeq(r.calls, Len(x.calls) + 1,
                                              Len(r.calls)),
                             payloads |-> SubSeq(r.payloads,
                                                 Len(x.payloads) + 1,
                                                 Len(r.payloads))])]

\* One format_json_value_list call of wm_write_json.
AppendSample(x, s) ==
  LET a == FormatJsonValueList(x.cb, s)
  IN  [Call(x, IF a.status = RetOk THEN "append_ok"
               ELSE IF a.status = RetNoMem THEN "append_nomem"
               ELSE "append_error")
         EXCEPT !.cb = a.cb, !.status = a.status]

\* The append of wm_write_json that reports success whatever the retry did.
WriteAppend_drops_status(x, s, e, t) ==
  LET a == AppendSample(x, s)
  IN  IF a.status = RetNoMem
        THEN LET f == wm_flush_nolock(0, a, e, t)
        IN  IF f.status # RetOk
              THEN [wm_reset_buffer(f, t) EXCEPT !.status = f.status,
                                                 !.unlocked = TRUE]
              ELSE [AppendSample(f, s) EXCEPT !.status = RetOk,
                                              !.unlocked = TRUE]
        ELSE [a EXCEPT !.unlocked = TRUE]

\* The append of wm_write_json that tries again also after a failed flush.
WriteAppend_retries_after_failed_flush(x, s, e, t) ==
  LET a == AppendSample(x, s)
  IN  IF a.status = RetNoMem
        THEN LET f == wm_flush_nolock(0, a, e, t)
        IN  IF f.status # RetOk
              THEN [AppendSample(wm_reset_buffer(f, t), s)
                      EXCEPT !.unlocked = TRUE]
              ELSE [AppendSample(f, s) EXCEPT !.unlocked = TRUE]
        ELSE [a EXCEPT !.unlocked = TRUE]

\* wm_write_json from the first format_json_value_list on: append, on
\* -ENOMEM flush and append once more, unlock on every way out.
WriteAppend(x, s, e, t) ==
  LET a == AppendSample(x, s)
  IN  IF a.status = RetNoMem
        THEN LET f == wm_flush_nolock(0, a, e, t)
        IN  IF f.status # RetOk
              THEN [wm_reset_buffer(f, t) EXCEPT !.status = f.status,
                                                 !.unlocked = TRUE]
              ELSE [AppendSample(f, s) EXCEPT !.unlocked = TRUE]
        ELSE [a EXCEPT !.unlocked = TRUE]

\* wm_write_json after pthread_mutex_lock.
wm_write_json(x, s, e, t) ==
  LET i == wm_callback_init(x, e, t)
  IN  IF i.status # RetOk
        THEN [Call(i, "log_error") EXCEPT !.status = RetFail,
                                          !.unlocked = TRUE]
        ELSE WriteAppend(i, s, e, t)

\* wm_flush after pthread_mutex_lock.
wm_flush(timeout, x, e, t) ==
  LET i == wm_callback_init(x, e, t)
  IN  IF i.status # RetOk
        THEN [Call(i, "log_error") EXCEPT !.status = RetFail,
                                          !.unlocked = TRUE]
        ELSE [wm_flush_nolock(timeout, i, e, t) EXCEPT !.unlocked = TRUE]

\* wm_callback_free that releases the connection before the final flush.
wm_callback_free_flushes_last(x, e, t) ==
  IF x.cb.mosq
    THEN LET d == IF x.cb.connected THEN Call(x, "disconnect") ELSE x
             s == [Call(d, "loop_stop") EXCEPT !.cb.connected = FALSE]
             f == wm_flush_nolock(0, s, e, t)
         IN  [Call(f, "destroy") EXCEPT !.status = RetOk]
    ELSE [x EXCEPT !.status = RetOk]

\* wm_callback_free up to the sfree calls; it never touches send_lock.
wm_callback_free(x, e, t) ==
  IF x.cb.mosq
    THEN LET f == wm_flush_nolock(0, x, e, t)
             d == IF f.cb.connected THEN Call(f, "disconnect") ELSE f
         IN  [Call(Call(d, "loop_stop"), "destroy")
                EXCEPT !.cb.connected = FALSE, !.status = RetOk]
    ELSE [x EXCEPT !.status = RetOk]

(* ------------------------- history variables -------------------------- *)

NoRun == [fails |-> 0, onsets |-> 0, recovered |-> 0]

\* run counts, since the last successful mosquitto_publish, the failed
\* publishes and the onset and recovery lines logged; a successful publish
\* closes the run into lastRun.
RECURSIVE CountRun(_, _, _)
CountRun(r, calls, i) ==
  IF i > Len(calls)
    THEN r
    ELSE CountRun(
           IF calls[i] = "publish_fail"
             THEN [r EXCEPT !.run.fails = @ + 1]
             ELSE IF calls[i] = "log_onset"
               THEN [r EXCEPT !.run.onsets = @ + 1]
               ELSE IF calls[i] = "log_recovered"
                 THEN [r EXCEPT !.run.recovered = @ + 1]
                 ELSE IF calls[i] = "publish_ok"
                   THEN [run |-> NoRun, lastRun |-> r.run]
                   ELSE r,
           calls, i + 1)

\* The samples taken by successful writes since the last buffer reset.
Accepted(acc, x, s) ==
  LET kept == IF x.resets > 0 THEN <<>> ELSE acc
  IN  IF s # NoSample /\ x.status = RetOk THEN Append(kept, s.id) ELSE kept

NoObs ==
  [op |-> "none", thread |-> "none", sample |-> NoSample, timeout |-> 0,
   status |-> RetOk, calls |-> <<>>, payloads |-> <<>>, flushes |-> <<>>,
   resets |-> 0, pre |-> InitCb, preAccepted |-> <<>>, preFails |-> 0,
   at |-> 0, held |-> FALSE]

\* What the operation that just returned did, and whether its thread held
\* send_lock while it ran; the next step of any thread clears it.
Observe(op, t, s, timeout, x) ==
  [op |-> op, thread |-> t, sample |-> s, timeout |-> timeout,
   status |-> x.status, calls |-> x.calls, payloads |-> x.payloads,
   flushes |-> x.flushes, resets |-> x.resets, pre |-> cb,
   preAccepted |-> accepted, preFails |-> run.fails, at |-> now,
   held |-> lock = t]

(* ------------------------------ actions ------------------------------- *)

Init ==
  /\ cb = InitCb
  /\ now = 0
  /\ lock = "none"
  /\ pc = [t \in Threads |-> "idle"]
  /\ freed = FALSE
  /\ accepted = <<>>
  /\ run = NoRun
  /\ lastRun = NoRun
  /\ obs = NoObs

\* The results the library calls may have in the current state; a call
\* that cannot be made from it has one result, so that no operation is
\* explored twice.
EnvNow ==
  { e \in Env :
      /\ cb.mosq => e.init = "ok"
      /\ run.fails >= MaxFails => e.publish
      /\ cb.send_buffer_fill = 0 => e.finalize /\ e.publish
      /\ (cb.connected \/ cb.send_buffer_fill = 0) => e.reconnect }

\* The operation x returns: the instance, the histories and the mutex.
Return(op, t, s, timeout, x) ==
  LET r == CountRun([run |-> run, lastRun |-> lastRun], x.calls, 1)
  IN  /\ cb' = x.cb
      /\ accepted' = Accepted(accepted, x, s)
      /\ run' = r.run
      /\ lastRun' = r.lastRun
      /\ obs' = Observe(op, t, s, timeout, x)
      /\ lock' = IF x.unlocked /\ lock = t THEN "none" ELSE lock
      /\ pc' = [pc EXCEPT ![t] = "idle"]

\* pthread_mutex_lock at the top of wm_write_json.
WmWriteLock(t) ==
  /\ ~freed
  /\ pc[t] = "idle"
  /\ lock = "none"
  /\ lock' = t
  /\ pc' = [pc EXCEPT ![t] = "write"]
  /\ obs' = NoObs
  /\ UNCHANGED <<cb, now, freed, accepted, run, lastRun>>

WmWrite(t) ==
  /\ ~freed
  /\ pc[t] = "write"
  /\ \E s \in Samples, e \in EnvNow :
       Return("write", t, s, 0, wm_write_json(Begin(cb), s, e, now))
  /\ UNCHANGED <<now, freed>>

\* pthread_mutex_lock at the top of wm_flush.
WmFlushLock(t) ==
  /\ ~freed
  /\ pc[t] = "idle"
  /\ lock = "none"
  /\ lock' = t
  /\ pc' = [pc EXCEPT ![t] = "flush"]
  /\ obs' = NoObs
  /\ UNCHANGED <<cb, now, freed, accepted, run, lastRun>>

WmFlush(t) ==
  /\ ~freed
  /\ pc[t] = "flush"
  /\ \E timeout \in Timeouts, e \in EnvNow :
       Return("flush", t, NoSample, timeout,
              wm_flush(timeout, Begin(cb), e, now))
  /\ UNCHANGED <<now, freed>>

\* The host calls the free_func of the write callback, once.
WmCallbackFreeCall(t) ==
  /\ ~freed
  /\ pc[t] = "idle"
  /\ \A u \in Threads : pc[u] # "free"
  /\ pc' = [pc EXCEPT ![t] = "free"]
  /\ obs' = NoObs
  /\ UNCHANGED <<cb, now, lock, freed, accepted, run, lastRun>>

WmCallbackFree(t) ==
  /\ ~freed
  /\ pc[t] = "free"
  /\ \E e \in EnvNow :
       Return("free", t, NoSample, 0, wm_callback_free(Begin(cb), e, now))
  /\ freed' = TRUE
  /\ UNCHANGED now

\* cdtime() advances.
Tick ==
  /\ now < MaxTime
  /\ now' = now + 1
  /\ obs' = NoObs
  /\ UNCHANGED <<cb, lock, pc, freed, accepted, run, lastRun>>

Next ==
  \/ \E t \in Threads : WmWriteLock(t)
  \/ \E t \in Threads : WmWrite(t)
  \/ \E t \in Threads : WmFlushLock(t)
  \/ \E t \in Threads : WmFlush(t)
  \/ \E t \in Threads : WmCallbackFreeCall(t)
  \/ \E t \in Threads : WmCallbackFree(t)
  \/ Tick

Spec == Init /\ [][Next]_vars

(* ----------------------------- properties ----------------------------- *)

Has(calls, name) == \E i \in DOMAIN calls : calls[i] = name

\* Some call named in a comes before some call named in b.
Before(calls, a, b) ==
  \E i, j \in DOMAIN calls : i < j /\ calls[i] \in a /\ calls[j] \in b

Failures ==
  {"new_fail", "tls_set_fail", "tls_insecure_fail", "connect_fail",
   "loop_start_fail", "reconnect_fail", "publish_fail", "finalize_fail"}

NoFailure(calls) == \A i \in DOMAIN calls : calls[i] \notin Failures

Publishes == {"publish_ok", "publish_fail"}

SampleOf(id) == CHOOSE s \in Samples : s.id = id

RECURSIVE TotalSize(_)
TotalSize(ids) ==
  IF ids = <<>> THEN 0 ELSE SampleOf(Head(ids)).size + TotalSize(Tail(ids))

RECURSIVE Encode(_)
Encode(ids) ==
  IF ids = <<>> THEN <<>> ELSE Serialize(SampleOf(Head(ids))) \o Encode(Tail(ids))

EmptyBuffer(c) ==
  /\ c.send_buffer_fill = 0
  /\ c.send_buffer_free = BufSize
  /\ c.send_buffer = <<>>

SameBuffer(c, d) ==
  /\ c.send_buffer_fill = d.send_buffer_fill
  /\ c.send_buffer_free = d.send_buffer_free
  /\ c.send_buffer = d.send_buffer

\* The age check of a flush passes: it is unconditional or the buffer is old.
PastAgeCheck(f) ==
  f.timeout = 0 \/ obs.at - f.entry.send_buffer_init_time >= f.timeout

\* C1: every thread inside wm_write_json, wm_flush or wm_callback_free holds
\* send_lock, so no two of them are inside at once, and a thread that has
\* returned holds it no more.
C1_BodiesHoldSendLock ==
  /\ \A t \in Threads : pc[t] # "idle" => lock = t
  /\ \A t \in Threads : pc[t] = "idle" => lock # t

\* C2: a write of a serializable sample to an initialized instance, when the
\* samples taken since the last reset and this one total at most
\* capacity - 2 bytes, runs no flush, publishes nothing, returns 0 and leaves
\* every one of these samples in the buffer.
C2_SmallWritesStayBuffered ==
  ( /\ obs.op = "write"
    /\ obs.pre.mosq
    /\ obs.sample.size > 0
    /\ TotalSize(obs.preAccepted) + obs.sample.size <= BufSize - 2 )
  => /\ obs.flushes = <<>>
     /\ obs.payloads = <<>>
     /\ obs.resets = 0
     /\ obs.status = RetOk
     /\ accepted = Append(obs.preAccepted, obs.sample.id)
     /\ cb.send_buffer = Encode(accepted)
     /\ cb.send_buffer_fill = TotalSize(accepted)

\* Two samples were written one after the other and fill the buffer up to
\* capacity - 2.
C2_Witness ==
  /\ obs.op = "write"
  /\ obs.pre.mosq
  /\ obs.status = RetOk
  /\ Len(accepted) >= 2
  /\ Len(accepted) = Len(obs.preAccepted) + 1
  /\ TotalSize(accepted) = BufSize - 2

\* C3: a run of wm_flush_nolock with timeout > 0 on a buffer younger than the
\* timeout makes no library call, publishes nothing, returns 0 and leaves
\* the instance (fill, free, contents, reset time, connected flag) as it was.
C3_YoungFlushIsNoOp ==
  \A i \in DOMAIN obs.flushes :
    LET f == obs.flushes[i]
    IN  ( /\ f.timeout > 0
          /\ obs.at - f.entry.send_buffer_init_time < f.timeout )
        => /\ f.calls = <<>>
           /\ f.payloads = <<>>
           /\ f.status = RetOk
           /\ f.exit = f.entry

\* A conditional flush found a young buffer with samples in it.
C3_Witness ==
  /\ obs.op = "flush"
  /\ \E i \in DOMAIN obs.flushes :
       /\ obs.flushes[i].timeout > 0
       /\ obs.at - obs.flushes[i].entry.send_buffer_init_time
            < obs.flushes[i].timeout
       /\ Len(obs.flushes[i].entry.send_buffer) >= 2 * 3
  /\ Len(cb.send_buffer) >= 2 * 3

\* C4: a run of wm_flush_nolock with timeout 0 finalizes and sends exactly
\* when the fill is above 2: with a fill of 2 or less it makes no library
\* call, stamps the reset time and returns 0; above 2 it finalizes the
\* buffer and hands it to mosquitto_publish unless the finalize or the
\* reconnect fails; a published payload is never an empty array.
C4_UnconditionalFlushSendsIffFilled ==
  \A i \in DOMAIN obs.flushes :
    LET f == obs.flushes[i]
    IN  f.timeout = 0
        => /\ f.entry.send_buffer_fill <= 2
                => /\ f.calls = <<>>
                   /\ f.payloads = <<>>
                   /\ f.status = RetOk
                   /\ f.exit = [f.entry EXCEPT !.send_buffer_init_time = obs.at]
           /\ f.entry.send_buffer_fill > 2
                => /\ f.calls # <<>>
                   /\ f.calls[1] \in {"finalize_ok", "finalize_fail"}
                   /\ (f.payloads # <<>>)
                        <=> ( /\ f.calls[1] = "finalize_ok"
                              /\ ~Has(f.calls, "reconnect_fail") )
           /\ \A k \in DOMAIN f.payloads :
                /\ f.entry.send_buffer_fill > 2
                /\ WellFormedPayload(f.payloads[k])
                /\ PayloadElements(f.payloads[k], 1) # <<>>

\* An unconditional flush published a buffer with samples in it.
C4_Witness ==
  /\ obs.op = "flush"
  /\ obs.timeout = 0
  /\ Len(obs.flushes) = 1
  /\ obs.flushes[1].entry.send_buffer_fill > 2
  /\ Has(obs.flushes[1].calls, "publish_ok")
  /\ Len(obs.payloads) = 1

\* C5 as stated: every run of wm_flush_nolock leaves the buffer as
\* wm_reset_buffer leaves it.
C5_EveryFlushLeavesEmptyBuffer ==
  \A i \in DOMAIN obs.flushes : EmptyBuffer(obs.flushes[i].exit)

\* C5, amended: every run of wm_flush_nolock that gets past the age check
\* leaves the buffer empty (fill 0, free = capacity, no sample), whether the
\* finalize, the reconnect or the publish failed or all succeeded, and a run
\* that had something to send leaves the reset time at the time of the run.
C5_FlushPastAgeCheckLeavesEmptyBuffer ==
  \A i \in DOMAIN obs.flushes :
    LET f == obs.flushes[i]
    IN  PastAgeCheck(f)
        => /\ EmptyBuffer(f.exit)
           /\ f.exit.send_buffer_init_time = obs.at
           /\ (obs.op = "flush" => EmptyBuffer(cb) /\ accepted = <<>>)

\* A flush of a filled buffer failed and left the buffer empty.
C5_Witness ==
  /\ obs.op = "flush"
  /\ Len(obs.flushes) = 1
  /\ obs.flushes[1].entry.send_buffer_fill > 2
  /\ obs.flushes[1].status # RetOk
  /\ obs.status # RetOk
  /\ EmptyBuffer(cb)

\* C6: when mosquitto_publish fails in a flush, a disconnect follows, the
\* connected flag is false afterwards and the flush, and the write or flush
\* call around it, return failure; and a publish that follows a failed one
\* comes after a successful mosquitto_reconnect in the same operation, on
\* the handle already there.
C6_PublishFailureDisconnects ==
  /\ \A i \in DOMAIN obs.flushes :
       LET f == obs.flushes[i]
       IN  Has(f.calls, "publish_fail")
           => /\ Before(f.calls, {"publish_fail"}, {"disconnect"})
              /\ ~f.exit.connected
              /\ f.exit.mosq
              /\ f.status = RetFail
              /\ (obs.op \in {"write", "flush"} => obs.status = RetFail)
              /\ ~cb.connected
  /\ ( /\ obs.preFails > 0
       /\ \E k \in DOMAIN obs.calls : obs.calls[k] \in Publishes )
     => /\ obs.pre.mosq
        /\ ~obs.pre.connected
        /\ ~Has(obs.calls, "new_ok")
        /\ Before(obs.calls, {"reconnect_ok"}, Publishes)
        /\ ~Before(obs.calls, Publishes, {"reconnect_ok"})

\* A publish failed, the next flush reconnected, and its publish failed too.
C6_Witness ==
  /\ obs.op = "flush"
  /\ obs.preFails > 0
  /\ Has(obs.calls, "reconnect_ok")
  /\ Has(obs.calls, "publish_fail")
  /\ ~cb.connected

\* C7: the payload handed to mosquitto_publish is one array whose elements
\* are the samples taken by successful writes since the last reset, each
\* once, in the order they were written.
C7_PayloadIsAcceptedSamples ==
  /\ Len(obs.payloads) <= 1
  /\ \A k \in DOMAIN obs.payloads :
       /\ WellFormedPayload(obs.payloads[k])
       /\ PayloadElements(obs.payloads[k], 1) = obs.preAccepted
       /\ Len(obs.payloads[k]) = TotalSize(obs.preAccepted) + 1
       /\ obs.preAccepted # <<>>

\* A payload of two different samples was published.
C7_Witness ==
  /\ Len(obs.payloads) = 1
  /\ obs.preAccepted = <<"b", "a">>
  /\ PayloadElements(obs.payloads[1], 1) = <<"b", "a">>

\* C8: a write of a sample larger than the buffer to an instance whose
\* buffer is empty (the handle there, or built by this write): both appends
\* fail with -ENOMEM, the flush between them makes no library call and
\* publishes nothing, the write returns -ENOMEM and fill, free and contents
\* are as before.
C8_OversizedSampleIsRejected ==
  ( /\ obs.op = "write"
    /\ obs.sample.size > BufSize
    /\ EmptyBuffer(obs.pre)
    /\ (obs.pre.mosq \/ Has(obs.calls, "loop_start_ok")) )
  => /\ SelectSeq(obs.calls,
                  LAMBDA c : c \in {"append_ok", "append_nomem",
                                    "append_error"} \cup Publishes)
          = <<"append_nomem", "append_nomem">>
     /\ Len(obs.flushes) = 1
     /\ obs.flushes[1].timeout = 0
     /\ obs.flushes[1].calls = <<>>
     /\ obs.flushes[1].status = RetOk
     /\ obs.payloads = <<>>
     /\ obs.status = RetNoMem
     /\ obs.status # RetOk
     /\ SameBuffer(cb, obs.pre)
     /\ accepted = obs.preAccepted

\* An oversized sample was written to an initialized, empty instance.
C8_Witness ==
  /\ obs.op = "write"
  /\ obs.sample.size > BufSize
  /\ obs.pre.mosq
  /\ EmptyBuffer(obs.pre)
  /\ Len(obs.flushes) = 1
  /\ obs.status = RetNoMem

\* C9: a run of one or more failed publishes closed by a successful one
\* logs at most one onset line and exactly one recovery line.
C9_OneOnsetOneRecoveryPerRun ==
  lastRun.fails >= 1 => lastRun.onsets <= 1 /\ lastRun.recovered = 1

\* Both samples a write can buffer fit an empty buffer.
Fits(s) == s.size > 0 /\ s.size <= BufSize - ReservedBytes

\* C10 as stated: a write that finds the connected flag false, with every
\* library call succeeding and a sample that fits, connects or reconnects,
\* returns 0 and leaves the flag true.
C10_WriteConnects ==
  ( /\ obs.op = "write"
    /\ ~obs.pre.connected
    /\ NoFailure(obs.calls)
    /\ Fits(obs.sample) )
  => /\ obs.status = RetOk
     /\ cb.connected
     /\ (Has(obs.calls, "connect_ok") \/ Has(obs.calls, "reconnect_ok"))

\* C10, amended: with every library call succeeding and a sample that fits,
\* a write that finds no handle builds it, connects, returns 0 and leaves
\* the flag true; a write that finds a handle and the flag false returns 0
\* too, but reconnects only if it has to flush first: when the sample fits
\* beside the buffered ones it makes no reconnect and the flag stays false.
C10_WriteConnectsOnlyWithoutHandle ==
  ( /\ obs.op = "write"
    /\ NoFailure(obs.calls)
    /\ Fits(obs.sample) )
  => /\ obs.status = RetOk
     /\ Has(obs.calls, "append_ok")
     /\ ~obs.pre.mosq
          => /\ Has(obs.calls, "connect_ok")
             /\ cb.mosq
             /\ cb.connected
     /\ (obs.pre.mosq /\ ~obs.pre.connected /\ obs.payloads = <<>>)
          => /\ ~Has(obs.calls, "reconnect_ok")
             /\ ~Has(obs.calls, "connect_ok")
             /\ ~cb.connected
     /\ (obs.pre.mosq /\ ~obs.pre.connected /\ obs.payloads # <<>>)
          => /\ Before(obs.calls, {"reconnect_ok"}, Publishes)
             /\ cb.connected

\* The first write built the handle and connected.
C10_Witness ==
  /\ obs.op = "write"
  /\ ~obs.pre.mosq
  /\ ~obs.pre.connected
  /\ Has(obs.calls, "connect_ok")
  /\ obs.status = RetOk
  /\ cb.connected
  /\ accepted = <<obs.sample.id>>

\* The calls of a sequence that are named in a set, in order.
Only(calls, names) == SelectSeq(calls, LAMBDA c : c \in names)

Appends == {"append_ok", "append_nomem", "append_error"}

Finalizes == {"finalize_ok", "finalize_fail"}

Reconnects == {"reconnect_ok", "reconnect_fail"}

InitFailures ==
  {"new_fail", "tls_set_fail", "tls_insecure_fail", "connect_fail",
   "loop_start_fail"}

\* C11: wm_callback_free on an instance with a handle runs wm_flush_nolock
\* with timeout 0 exactly once, on the buffer as it found it, and only
\* after that flush disconnects (if still connected), stops the loop and
\* destroys the handle; the buffer is finalized and published at most once,
\* also when the flush fails.
C11_TeardownFlushesOnceThenReleases ==
  (obs.op = "free" /\ obs.pre.mosq)
  => /\ Len(obs.flushes) = 1
     /\ obs.flushes[1].timeout = 0
     /\ obs.flushes[1].entry = obs.pre
     /\ obs.calls
          = obs.flushes[1].calls
              \o (IF obs.flushes[1].exit.connected
                    THEN <<"disconnect">> ELSE <<>>)
              \o <<"loop_stop", "destroy">>
     /\ obs.pre.send_buffer_fill > 2
          => Len(Only(obs.calls, Finalizes)) = 1
     /\ Len(Only(obs.calls, Finalizes)) <= 1
     /\ Len(Only(obs.calls, Publishes \cup Reconnects)) <= 2
     /\ Len(obs.payloads) <= 1
     /\ ~cb.connected

\* The final flush of a filled buffer failed and was not tried again.
C11_Witness ==
  /\ obs.op = "free"
  /\ obs.pre.mosq
  /\ obs.pre.send_buffer_fill > 2
  /\ obs.flushes[1].status # RetOk
  /\ Has(obs.calls, "publish_fail")
  /\ Len(obs.payloads) = 1

\* C12: a write or flush call in which a step of the connection
\* initialization, a reconnect, a publish or a finalize fails returns a
\* non-zero status, whether or not the failure logged a complaint line.
C12_FailuresAreReturned ==
  (obs.op \in {"write", "flush"} /\ ~NoFailure(obs.calls))
  => obs.status # RetOk

\* A publish failed inside a write and the write returned the failure.
C12_Witness ==
  /\ obs.op = "write"
  /\ Has(obs.calls, "publish_fail")
  /\ obs.status = RetFail

\* The cursors of a buffer add up to its capacity and fill counts its bytes.
Balanced(c) ==
  /\ c.send_buffer_fill + c.send_buffer_free = BufSize
  /\ Len(c.send_buffer) = c.send_buffer_fill

\* C13: in every state fill + free is the capacity of the buffer, also at
\* the entry and the exit of every flush, and a payload handed to the
\* publish call (the buffer after finalize) is no longer than the capacity.
C13_FillPlusFreeIsCapacity ==
  /\ Balanced(cb)
  /\ \A i \in DOMAIN obs.flushes :
       Balanced(obs.flushes[i].entry) /\ Balanced(obs.flushes[i].exit)
  /\ \A i \in DOMAIN obs.payloads : Len(obs.payloads[i]) <= BufSize

\* A write found the buffer filled, was refused for lack of room, flushed
\* (finalize, publish, reset) and appended the sample on the second attempt.
C13_Witness ==
  /\ obs.op = "write"
  /\ obs.pre.send_buffer_fill > 2
  /\ Only(obs.calls, Appends \cup Finalizes)
       = <<"append_nomem", "finalize_ok", "append_ok">>
  /\ obs.resets > 0
  /\ cb.send_buffer_fill = obs.sample.size

\* The publishes and reconnects of one flush are: nothing, a failed
\* reconnect alone, a publish on a connection that was up at entry, or a
\* publish straight after a successful reconnect.
C14_FlushPublishesConnected(f) ==
  LET n == Only(f.calls, Publishes \cup Reconnects)
  IN  /\ \/ n = <<>>
         \/ n = <<"reconnect_fail">> /\ ~f.entry.connected
         \/ Len(n) = 1 /\ n[1] \in Publishes /\ f.entry.connected
         \/ Len(n) = 2 /\ n[1] = "reconnect_ok" /\ n[2] \in Publishes
      /\ Has(f.calls, "reconnect_fail")
           => ~f.exit.connected /\ f.status # RetOk
      /\ n # <<>> => f.entry.mosq

\* C14: every publish is issued on a non-null handle with the connected
\* flag true, straight after an ensureConnected that succeeded, by a thread
\* that holds send_lock for both; after a failed reconnect nothing is
\* published, the flag stays false and the failure is returned.
C14_PublishOnlyConnectedUnderLock ==
  /\ \A i \in DOMAIN obs.flushes : C14_FlushPublishesConnected(obs.flushes[i])
  /\ obs.payloads # <<>> => obs.held

\* C15: a write or flush in which a step of wm_callback_init fails leaves
\* the handle null, returns a failure, has held send_lock and released it,
\* appends and flushes nothing and leaves the buffer and the accepted
\* samples as they were; a write or flush that finds the handle null starts
\* the initialization over from mosquitto_new.
C15_FailedInitLeavesNoHandle ==
  /\ (obs.op \in {"write", "flush"} /\ Only(obs.calls, InitFailures) # <<>>)
     => /\ ~cb.mosq
        /\ obs.status # RetOk
        /\ obs.held
        /\ lock # obs.thread
        /\ SameBuffer(cb, obs.pre)
        /\ accepted = obs.preAccepted
        /\ Only(obs.calls, Appends \cup Finalizes \cup Publishes) = <<>>
        /\ obs.flushes = <<>>
        /\ obs.resets = 0
  /\ (obs.op \in {"write", "flush"} /\ ~obs.pre.mosq)
     => /\ obs.calls # <<>>
        /\ obs.calls[1] \in {"new_ok", "new_fail"}

\* A write met a null handle left by an earlier failed start of the I/O
\* loop, ran the initialization from mosquitto_new and failed at the connect.
C15_Witness ==
  /\ obs.op = "write"
  /\ ~obs.pre.mosq
  /\ obs.pre.connected
  /\ obs.calls[1] = "new_ok"
  /\ Has(obs.calls, "connect_fail")
  /\ obs.status = RetFail
  /\ ~cb.mosq

\* C16: a write makes at most two append attempts, one flush and one
\* publish; it flushes exactly when the first append would not fit, appends
\* a second time exactly when that flush succeeded, returns a failure
\* without a second append when the flush failed, and returns the result of
\* the second append without doing anything after it.
C16_WriteRetriesOnce ==
  obs.op = "write"
  => LET a == Only(obs.calls, Appends)
     IN  /\ Len(a) <= 2
         /\ Len(obs.flushes) <= 1
         /\ Len(Only(obs.calls, Publishes)) <= 1
         /\ Len(obs.payloads) <= 1
         /\ a = <<>> <=> Only(obs.calls, InitFailures) # <<>>
         /\ Len(obs.flushes) = 1 <=> (a # <<>> /\ a[1] = "append_nomem")
         /\ Len(a) = 2
              <=> (Len(obs.flushes) = 1 /\ obs.flushes[1].status = RetOk)
         /\ (Len(obs.flushes) = 1 /\ obs.flushes[1].status # RetOk)
              => obs.status = obs.flushes[1].status
         /\ Len(a) = 2
              => /\ obs.calls[Len(obs.calls)] = a[2]
                 /\ obs.status = RetOk <=> a[2] = "append_ok"

\* An oversized sample was refused, the filled buffer was flushed and
\* published, the second append was refused too and the write failed.
C16_Witness ==
  /\ obs.op = "write"
  /\ obs.pre.send_buffer_fill > 2
  /\ Only(obs.calls, Appends \cup Publishes)
       = <<"append_nomem", "publish_ok", "append_nomem">>
  /\ obs.status = RetNoMem

\* C17: a reconnect is attempted at most once per call and only inside a
\* flush that found a handle, more than 2 bytes in the buffer, the age check
\* passed, the finalize done and the connected flag false; a write whose
\* first append fits, a conditional flush of a young buffer and a flush of
\* an empty buffer attempt none.
C17_ReconnectIsLazy ==
  /\ Len(obs.flushes) <= 1
  /\ obs.flushes = <<>> => Only(obs.calls, Reconnects) = <<>>
  /\ \A i \in DOMAIN obs.flushes :
       LET f == obs.flushes[i]
       IN  /\ Only(obs.calls, Reconnects) = Only(f.calls, Reconnects)
           /\ Len(Only(f.calls, Reconnects)) <= 1
           /\ Only(f.calls, Reconnects) # <<>>
                => /\ f.entry.mosq
                   /\ f.entry.send_buffer_fill > 2
                   /\ PastAgeCheck(f)
                   /\ ~f.entry.connected
                   /\ Before(f.calls, {"finalize_ok"}, Reconnects)
  /\ (obs.op = "write" /\ Only(obs.calls, Appends) = <<"append_ok">>)
       => Only(obs.calls, Reconnects) = <<>>

\* A conditional flush of a buffer that had grown old found the connection
\* down, reconnected and published.
C17_Witness ==
  /\ obs.op = "flush"
  /\ obs.timeout > 0
  /\ ~obs.pre.connected
  /\ obs.pre.send_buffer_fill > 2
  /\ Only(obs.calls, Publishes \cup Reconnects)
       = <<"reconnect_ok", "publish_ok">>

\* C18: whenever the handle is null the connected flag is false, also after
\* a failed start of the I/O loop in wm_callback_init.
C18_NullHandleIsUnconnected == ~cb.mosq => ~cb.connected

\* C19: a call that finds a handle leaves a handle, and a write or flush
\* that finds one never destroys it, whatever fails; so whenever a sample is
\* buffered the handle is non-null, and a teardown with buffered samples
\* runs the final flush up to the finalize.
C19_HandleOutlivesFailures ==
  /\ obs.pre.mosq => cb.mosq
  /\ (obs.op \in {"write", "flush"} /\ obs.pre.mosq)
       => ~Has(obs.calls, "destroy")
  /\ (accepted # <<>> \/ cb.send_buffer_fill > 0) => cb.mosq
  /\ (obs.op = "free" /\ obs.preAccepted # <<>>)
       => /\ obs.pre.mosq
          /\ Len(obs.flushes) = 1
          /\ Only(obs.calls, Finalizes) # <<>>

\* A publish failed, the handle stayed, a sample was written after it and
\* the teardown flushed that sample over a connection it had to reopen.
C19_Witness ==
  /\ obs.op = "free"
  /\ obs.preAccepted # <<>>
  /\ obs.pre.complaint
  /\ ~obs.pre.connected
  /\ Len(obs.payloads) = 1

\* C20: the buffer holds exactly the samples accepted since the last reset;
\* a call hands at most one payload to the publish call, made of exactly the
\* samples buffered before the call; and after a publish attempt, a failed
\* finalize or a failed reconnect the flush leaves the buffer empty, so that
\* none of the samples buffered before is buffered after and only the
\* sample of the write itself can be buffered again.
C20_SamplesArePublishedAtMostOnce ==
  /\ cb.send_buffer = Encode(accepted)
  /\ Len(Only(obs.calls, Publishes)) = Len(obs.payloads)
  /\ Len(obs.payloads) <= 1
  /\ \A k \in DOMAIN obs.payloads :
       PayloadElements(obs.payloads[k], 1) = obs.preAccepted
  /\ \A i \in DOMAIN obs.flushes :
       LET f == obs.flushes[i]
       IN  Only(f.calls, Finalizes \cup Publishes \cup Reconnects) # <<>>
             => /\ EmptyBuffer(f.exit)
                /\ f.entry.send_buffer = Encode(obs.preAccepted)
                /\ accepted = IF obs.op = "write" /\ obs.status = RetOk
                                THEN <<obs.sample.id>> ELSE <<>>

\* A write flushed two buffered samples into a publish that failed and gave
\* up; neither they nor its own sample are buffered afterwards.
C20_Witness ==
  /\ obs.op = "write"
  /\ Len(obs.preAccepted) = 2
  /\ Has(obs.calls, "publish_fail")
  /\ Len(obs.payloads) = 1
  /\ accepted = <<>>
  /\ EmptyBuffer(cb)

====
